---- MODULE Spec2Model ----
(***************************************************************************)
(* Model of the trace writer of datadog-trace-agent (package writer):      *)
(* the writer loop (TraceWriter.Run) with handleTrace and flush, the       *)
(* sender-event monitor goroutine, the updateInfo goroutines and Stop.     *)
(***************************************************************************)
EXTENDS Integers, Sequences, FiniteSets, Bags, TLC

\* ---------------------------------------------------------------- bounds
MaxCap == 3             \* MaxSpansPerPayload is configured in 1..MaxCap
MaxTraceLen == 3        \* longest trace offered on InTraces
MaxTraces == 3          \* messages received from InTraces
MaxMarshalErrors == 1   \* proto.Marshal failures
MaxEvents == 3          \* events read from payloadSender.Monitor()
MaxUpdateInfo == 2      \* ticks of updateInfoTicker
MaxShortTraces == 1     \* messages received in StatsSpec
MaxShortTraceLen == 1   \* longest trace received in StatsSpec
MinEpsInv == 2          \* Summary: the largest EPSILON is 1/MinEpsInv
MaxEpsInv == 4          \* Summary: the smallest EPSILON is 1/MaxEpsInv
MaxValue == 4           \* Summary: the values inserted are in 1..MaxValue
MaxInserts == 4         \* Summary: Insert calls
QDen == 8               \* Quantile is asked for q = k/QDen, k in 0..QDen
TimeBits == 8           \* normalizer: width of Start and Duration, scaled
                        \* down from the 64 bits of int64
Year2000Scaled == 16    \* normalizer: Year2000NanosecTS on that scale
EndOffsetScaled == 8    \* normalizer: MaxEndDateOffset on that scale
NowScaled == 64         \* normalizer: time.Now() on that scale
MaxID == 2              \* normalizer: TraceID and SpanID are in 0..MaxID
MaxNormTraceLen == 2    \* normalizer: longest trace passed to NormalizeTrace
MaxRules == 2           \* filter: entries of conf.Ignore and of conf.Regex
MaxResourceLen == 2     \* filter: longest Resource passed to Keep
MaxQueue == 2           \* traces the InTraces channel holds
MaxPayloads == 3        \* bucket Writer: payloads received from w.in
MaxSvcsVer == 3         \* bucket Writer: services updates received

\* ------------------------------------------------------------- constants
MaxServiceLen == 100
MaxNameLen == 100
MaxTypeLen == 100

VARIABLES
    MaxSpansPerPayload, \* w.conf.MaxSpansPerPayload
    traces,             \* w.traces: the buffered APITraces
    spansInBuffer,      \* w.spansInBuffer
    stats,              \* w.stats: the six atomic counters
    exit,               \* w.exit: "open" or "closed"
    exitWG,             \* w.exitWG
    senderState,        \* BaseWriter / payloadSender: "new", "running", "stopped"
    pc,                 \* position of the writer goroutine
    callTrace,          \* argument of the handleTrace call being executed
    depth,              \* number of nested handleTrace calls below the loop's call
    monitorOn,          \* the sender monitor goroutine has been spawned
    stopPc,             \* position of the caller of Stop
    updaters,           \* the running updateInfo goroutines, a bag
    nUpdateInfo,        \* history: updateInfo goroutines spawned
    statsd,             \* sums passed to StatsClient.Count, per counter
    twInfoReg,          \* last value passed to info.UpdateTraceWriterInfo
    sent,               \* payloads passed to payloadSender.Send, in order
    ingested,           \* history: traces passed to handleTrace by the loop
    nRecv,              \* history: messages received from InTraces
    added,              \* history: total of the increments of each counter
    evCount,            \* history: events read from the monitor channel, per type
    marshalErrs,        \* history: proto.Marshal failures
    inTraces,           \* w.InTraces: the traces sent and not yet received
    epsInv,             \* Summary: 1/EPSILON of the instance
    entries,            \* Summary: the entries, ordered by value
    sN,                 \* Summary: N, the number of observations
    inserted,           \* history: the values passed to Insert, in order
    qRes,               \* the last Quantile query (q, and N at the time) and
                        \* what it returned
    normIn,             \* the trace passed to NormalizeTrace
    normNow,            \* time.Now() during the call
    normRes,            \* what NormalizeTrace returned: the trace and the error
    normPc,             \* "idle", "ready" (before the call) or "done"
    confIgnore,         \* conf.Ignore["resource"]
    confRegex,          \* conf.Regex["resource"]
    blacklist,          \* resourceFilter.blacklist
    searchReplace,      \* resourceFilter.searchReplace
    filterPc,           \* "idle", "conf" (before newResourceFilter) or "ready"
    filterCall,         \* the last call of Keep or ApplyRegex and its result
    payloadsToWrite,    \* bucket Writer: w.payloadsToWrite
    svcsVer,            \* bucket Writer: w.svcsVer
    svcsFlushed,        \* bucket Writer: w.svcsFlushed
    runPc,              \* bucket Writer: position of the run goroutine
    runExit,            \* bucket Writer: w.exit, "open" or "closed"
    nPayloads,          \* history: payloads received from w.in
    written,            \* history: the endpoint.Write calls and their results
    svcsWritten         \* history: the endpoint.WriteServices calls

\* the state of the quantile summary
sketchVars == <<epsInv, entries, sN, inserted, qRes>>

\* the state of the span normalizer
normVars == <<normIn, normNow, normRes, normPc>>

\* the state of the resource filter
filterVars == <<confIgnore, confRegex, blacklist, searchReplace, filterPc,
                filterCall>>

\* the state of the bucket Writer
bucketVars == <<payloadsToWrite, svcsVer, svcsFlushed, runPc, runExit,
                nPayloads, written, svcsWritten>>

\* the state of the components other than the trace writer
otherVars == <<sketchVars, normVars, filterVars, bucketVars>>

\* the state of the trace writer
writerVars == <<MaxSpansPerPayload, traces, spansInBuffer, stats, exit, exitWG,
                senderState, pc, callTrace, depth, monitorOn, stopPc, updaters,
                nUpdateInfo,
                statsd, twInfoReg, sent, ingested, nRecv, added, evCount,
                marshalErrs, inTraces>>

vars == <<writerVars, otherVars>>

\* ------------------------------------------------------------- helpers
RECURSIVE SumLen(_)
SumLen(s) == IF s = <<>> THEN 0 ELSE Len(Head(s)) + SumLen(Tail(s))

RECURSIVE Concat(_)
Concat(s) == IF s = <<>> THEN <<>> ELSE Head(s) \o Concat(Tail(s))

Range(s) == {s[i] : i \in DOMAIN s}

CounterNames == <<"Payloads", "Traces", "Spans", "Bytes", "Retries", "Errors">>

ZeroStats == [c \in Range(CounterNames) |-> 0]

\* atomic.AddInt64(&w.stats.<c>, n)
AddInt64(s, c, n) == [s EXCEPT ![c] = @ + n]

\* a trace of the model: the i-th trace passed in, with len spans
NewTrace(i, len) == [j \in 1..len |-> <<i, j>>]

\* Trace.APITrace(): the wire projection of a trace
APITrace(trace) == [Spans |-> trace]

\* the span sequences of a sequence of APITraces
SpansOfEach(apiTraces) == [i \in DOMAIN apiTraces |-> apiTraces[i].Spans]

\* the spans of a sequence of APITraces, in order
SpansOf(apiTraces) == Concat([i \in DOMAIN apiTraces |-> apiTraces[i].Spans])

\* the variants read from payloadSender.Monitor(): the three event types,
\* a nil event and an event of any other type
SenderEvents == {"Success", "Failure", "Retry", "Nil", "Unknown"}

\* ------------------------------------------------- handleTrace and flush
\* the fields flush and handleTrace work on
W == [traces |-> traces, spansInBuffer |-> spansInBuffer, stats |-> stats,
      sent |-> sent, added |-> added, marshalErrs |-> marshalErrs,
      panicked |-> FALSE]

SetW(w) ==
    /\ traces' = w.traces
    /\ spansInBuffer' = w.spansInBuffer
    /\ stats' = w.stats
    /\ sent' = w.sent
    /\ added' = w.added
    /\ marshalErrs' = w.marshalErrs

\* len(serialized): the encoding is length-delimited, here one unit for each
\* trace and one for each span of the payload
SerializedLen(apiTraces) == Len(apiTraces) + Len(SpansOf(apiTraces))

\* whether proto.Marshal(&tracePayload) returns an error: the outcomes
MarshalResults ==
    {FALSE} \cup (IF marshalErrs < MaxMarshalErrors THEN {TRUE} ELSE {})

\* NewPayload(serialized, headers): the bytes encode the buffered traces
\* (variant: the traces are encoded last to first)
NewPayloadLastFirst(apiTraces, len) ==
    [Traces |-> [i \in DOMAIN apiTraces |-> apiTraces[Len(apiTraces) + 1 - i]],
     Bytes |-> len]
NewPayload(apiTraces, len) == [Traces |-> apiTraces, Bytes |-> len]

\* flush, after proto.Marshal failed: logged, and flush returns
\* (variant: the buffer is dropped on the error)
FlushMarshalFailedDrop(w) ==
    [w EXCEPT !.marshalErrs = @ + 1, !.traces = <<>>, !.spansInBuffer = 0]
FlushMarshalFailed(w) == [w EXCEPT !.marshalErrs = @ + 1]

\* flush, the buffer reset after Send
\* (variant: w.traces is not truncated)
FlushResetCountOnly(w) == [w EXCEPT !.spansInBuffer = 0]
FlushReset(w) == [w EXCEPT !.traces = <<>>, !.spansInBuffer = 0]

\* flush, the Traces and Spans counters
\* (variant: Spans is given the number of traces)
FlushCountTracesTwice(w) ==
    [w EXCEPT !.stats = AddInt64(AddInt64(@, "Traces", Len(w.traces)),
                                 "Spans", Len(w.traces)),
              !.added = AddInt64(AddInt64(@, "Traces", Len(w.traces)),
                                 "Spans", Len(w.traces))]
FlushCount(w) ==
    [w EXCEPT !.stats = AddInt64(AddInt64(@, "Traces", Len(w.traces)),
                                 "Spans", w.spansInBuffer),
              !.added = AddInt64(AddInt64(@, "Traces", Len(w.traces)),
                                 "Spans", w.spansInBuffer)]

\* TraceWriter.flush, err whether proto.Marshal returns an error
\* (variant: without the return on an empty buffer)
FlushEmptyToo(w, err) ==
    LET w1 == FlushCount(w)
        serialized == SerializedLen(w.traces)
    IN  IF err THEN FlushMarshalFailed(w1)
        ELSE FlushReset([w1 EXCEPT
                 !.stats = AddInt64(@, "Bytes", serialized),
                 !.added = AddInt64(@, "Bytes", serialized),
                 !.sent = Append(@, NewPayload(w.traces, serialized))])
Flush(w, err) ==
    LET numTraces == Len(w.traces)
        w1 == FlushCount(w)
        serialized == SerializedLen(w.traces)
    IN  IF numTraces = 0 THEN w
        ELSE IF err THEN FlushMarshalFailed(w1)
        ELSE FlushReset([w1 EXCEPT
                 !.stats = AddInt64(@, "Bytes", serialized),
                 !.added = AddInt64(@, "Bytes", serialized),
                 !.sent = Append(@, NewPayload(w.traces, serialized))])

\* spanOverflow := w.spansInBuffer + len(*trace) - w.conf.MaxSpansPerPayload
SpanOverflow(n, len, max) == n + len - max

\* splitIndex := len(*trace) - spanOverflow
\* (variant: off by one)
SplitIndexOffByOne(len, spanOverflow) == len - spanOverflow + 1
SplitIndex(len, spanOverflow) == len - spanOverflow

\* splitTrace = (*trace)[splitIndex:]
\* (variant: the slice starts one span late)
SplitTailSkipsOne(trace, splitIndex) == SubSeq(trace, splitIndex + 2, Len(trace))
SplitTail(trace, splitIndex) == SubSeq(trace, splitIndex + 1, Len(trace))

\* truncatedTrace := (*trace)[:splitIndex]
\* (variant: the kept spans in reverse order)
SplitHeadReversed(trace, splitIndex) ==
    [j \in 1..splitIndex |-> trace[splitIndex + 1 - j]]
SplitHead(trace, splitIndex) == SubSeq(trace, 1, splitIndex)

\* one execution of the body of handleTrace on a non-empty trace, up to the
\* recursive call: the new writer fields and the split trace to recurse on
HandleTraceBody(w, trace, max, r) ==
    LET spanOverflow == SpanOverflow(w.spansInBuffer, Len(trace), max)
        split == spanOverflow > 0
        splitIndex == SplitIndex(Len(trace), spanOverflow)
        \* a slice expression with bounds out of range panics
        badSlice == split /\ (splitIndex < 0 \/ splitIndex > Len(trace))
        splitTrace == IF split THEN SplitTail(trace, splitIndex) ELSE <<>>
        kept == IF split THEN SplitHead(trace, splitIndex) ELSE trace
        w1 == [w EXCEPT !.traces = Append(@, APITrace(kept)),
                        !.spansInBuffer = @ + Len(kept)]
    IN  IF badSlice THEN [w |-> [w EXCEPT !.panicked = TRUE], splitTrace |-> <<>>]
        ELSE IF w1.spansInBuffer = max
            THEN [w |-> Flush(w1, r), splitTrace |-> splitTrace]
        ELSE IF w1.spansInBuffer > max
            THEN [w |-> [w1 EXCEPT !.panicked = TRUE], splitTrace |-> <<>>]
        ELSE [w |-> w1, splitTrace |-> splitTrace]

\* ------------------------------------------------------------------ Init
\* NewSummary(): no entry, N = 0
NewSummary(e) ==
    /\ epsInv = e
    /\ entries = <<>>
    /\ sN = 0
    /\ inserted = <<>>
    /\ qRes = [q |-> 0, n |-> 0, err |-> TRUE, v |-> 0, samples |-> <<>>]

\* the normalizer before a call of NormalizeTrace on trace t at time now
NormReady(t, now, at) ==
    /\ normIn = t
    /\ normNow = now
    /\ normRes = [trace |-> <<>>, err |-> "nil"]
    /\ normPc = at

NormIdle == NormReady(<<>>, NowScaled, "idle")

\* the agent configuration of the filter, before newResourceFilter
FilterConf(ignore, regex, at) ==
    /\ confIgnore = ignore
    /\ confRegex = regex
    /\ blacklist = <<>>
    /\ searchReplace = <<>>
    /\ filterPc = at
    /\ filterCall = [op |-> "none"]

FilterIdle == FilterConf(<<>>, <<>>, "idle")

\* the components other than the trace writer, not in use
\* NewWriter: the bucket Writer as constructed, with nothing received
NewWriter ==
    /\ payloadsToWrite = <<>>
    /\ svcsVer = 0
    /\ svcsFlushed = 0
    /\ runPc = "new"
    /\ runExit = "open"
    /\ nPayloads = 0
    /\ written = <<>>
    /\ svcsWritten = <<>>

OtherIdle == NewSummary(MinEpsInv) /\ NormIdle /\ FilterIdle /\ NewWriter

\* the trace writer after NewTraceWriter, with a cap in caps
WriterInit(caps) ==
    /\ MaxSpansPerPayload \in caps
    /\ traces = <<>>
    /\ spansInBuffer = 0
    /\ stats = ZeroStats
    /\ exit = "open"
    /\ exitWG = 0
    /\ senderState = "new"
    /\ pc = "new"
    /\ callTrace = <<>>
    /\ depth = 0
    /\ monitorOn = FALSE
    /\ stopPc = "idle"
    /\ updaters = EmptyBag
    /\ nUpdateInfo = 0
    /\ statsd = ZeroStats
    /\ twInfoReg = ZeroStats
    /\ sent = <<>>
    /\ ingested = <<>>
    /\ nRecv = 0
    /\ added = ZeroStats
    /\ evCount = [e \in SenderEvents |-> 0]
    /\ marshalErrs = 0
    /\ inTraces = <<>>

Init == WriterInit(1..MaxCap) /\ OtherIdle

\* --------------------------------------------------------------- actions
bufVars == <<traces, spansInBuffer, sent, marshalErrs>>
callVars == <<callTrace, depth>>
infoVars == <<updaters, nUpdateInfo, statsd, twInfoReg>>
lifeVars == <<exit, exitWG, senderState, stopPc, monitorOn>>

\* TraceWriter.Start: BaseWriter.Start(), then go w.Run()
Start ==
    /\ pc = "new"
    /\ senderState' = "running"
    /\ pc' = "run"
    /\ UNCHANGED <<otherVars, inTraces, MaxSpansPerPayload, bufVars, stats, added, callVars, infoVars,
                   exit, exitWG, stopPc, monitorOn, ingested, nRecv, evCount>>

\* Run up to the loop: exitWG.Add(1), the tickers, go <monitor>
RunEnter ==
    /\ pc = "run"
    /\ exitWG' = exitWG + 1
    /\ monitorOn' = TRUE
    /\ pc' = "select"
    /\ UNCHANGED <<otherVars, inTraces, MaxSpansPerPayload, bufVars, stats, added, callVars, infoVars,
                   exit, senderState, stopPc, ingested, nRecv, evCount>>

\* case trace := <-w.InTraces, with trace == nil: continue
ReceiveNil ==
    /\ pc = "select"
    /\ nRecv < MaxTraces
    /\ nRecv' = nRecv + 1
    /\ UNCHANGED <<otherVars, inTraces, MaxSpansPerPayload, bufVars, stats, added, callVars, infoVars,
                   lifeVars, pc, ingested, evCount>>

\* case trace := <-w.InTraces, with a trace of one of the lengths lens, while
\* fewer than maxMsgs messages were received: w.handleTrace(trace) is called
Receive(maxMsgs, lens) ==
    /\ pc = "select"
    /\ nRecv < maxMsgs
    /\ \E len \in lens :
         LET trace == NewTrace(Len(ingested) + 1, len)
         IN  /\ callTrace' = trace
             /\ ingested' = Append(ingested, trace)
    /\ nRecv' = nRecv + 1
    /\ depth' = 0
    /\ pc' = "handle"
    /\ UNCHANGED <<otherVars, inTraces, MaxSpansPerPayload, bufVars, stats, added, infoVars,
                   lifeVars, evCount>>

ReceiveTrace == Receive(MaxTraces, 0..MaxTraceLen)

\* the same receive, from a producer of a few short traces
ReceiveShortTrace == Receive(MaxShortTraces, 1..MaxShortTraceLen)

\* upstream: InTraces <- trace, while the channel has room
SendTrace ==
    /\ Len(inTraces) < MaxQueue
    /\ Len(ingested) + Len(inTraces) < MaxTraces
    /\ \E len \in 1..MaxTraceLen :
         inTraces' = Append(inTraces,
                            NewTrace(Len(ingested) + Len(inTraces) + 1, len))
    /\ UNCHANGED <<otherVars, MaxSpansPerPayload, bufVars, stats, added, callVars,
                   infoVars, lifeVars, pc, ingested, nRecv, evCount>>

\* case trace := <-w.InTraces, the oldest trace the channel holds:
\* w.handleTrace(trace) is called
ReceiveQueued ==
    /\ pc = "select"
    /\ inTraces # <<>>
    /\ callTrace' = Head(inTraces)
    /\ inTraces' = Tail(inTraces)
    /\ ingested' = Append(ingested, Head(inTraces))
    /\ nRecv' = nRecv + 1
    /\ depth' = 0
    /\ pc' = "handle"
    /\ UNCHANGED <<otherVars, MaxSpansPerPayload, bufVars, stats, added, infoVars,
                   lifeVars, evCount>>

\* handleTrace on a 0-length trace: return
HandleEmptyTrace ==
    /\ pc = "handle"
    /\ Len(callTrace) = 0
    /\ pc' = "select"
    /\ callTrace' = <<>>
    /\ depth' = 0
    /\ UNCHANGED <<otherVars, inTraces, MaxSpansPerPayload, bufVars, stats, added, infoVars,
                   lifeVars, ingested, nRecv, evCount>>

\* one execution of handleTrace: it ends in the recursive call on the split
\* trace, in the return to the loop, or in the panic
HandleTrace ==
    /\ pc = "handle"
    /\ Len(callTrace) > 0
    /\ \E r \in MarshalResults :
         LET res == HandleTraceBody(W, callTrace, MaxSpansPerPayload, r)
         IN  /\ SetW(res.w)
             /\ IF res.w.panicked
                  THEN pc' = "panic" /\ UNCHANGED callVars
                ELSE IF Len(res.splitTrace) > 0
                  THEN /\ pc' = "handle"
                       /\ callTrace' = res.splitTrace
                       /\ depth' = depth + 1
                ELSE /\ pc' = "select"
                     /\ callTrace' = <<>>
                     /\ depth' = 0
    /\ UNCHANGED <<otherVars, inTraces, MaxSpansPerPayload, infoVars, lifeVars, ingested, nRecv,
                   evCount>>

\* case <-flushTicker.C: w.flush()
FlushTick ==
    /\ pc = "select"
    /\ \E r \in MarshalResults : SetW(Flush(W, r))
    /\ UNCHANGED <<otherVars, inTraces, MaxSpansPerPayload, callVars, infoVars, lifeVars, pc,
                   ingested, nRecv, evCount>>

\* case <-w.exit: w.flush(); return, and the deferred exitWG.Done()
\* (variant: the loop returns without the flush)
\* (variant: the traces the channel holds are received before the flush)
ExitDrainFlush ==
    /\ pc = "select"
    /\ exit = "closed"
    /\ LET w0 == [W EXCEPT
                    !.traces = @ \o [i \in DOMAIN inTraces |-> APITrace(inTraces[i])],
                    !.spansInBuffer = @ + SumLen(inTraces)]
       IN  \E r \in MarshalResults : SetW(Flush(w0, r))
    /\ ingested' = ingested \o inTraces
    /\ nRecv' = nRecv + Len(inTraces)
    /\ inTraces' = <<>>
    /\ exitWG' = exitWG - 1
    /\ pc' = "done"
    /\ UNCHANGED <<otherVars, MaxSpansPerPayload, callVars, infoVars, exit, senderState,
                   stopPc, monitorOn, evCount>>
ExitWithoutFlush ==
    /\ pc = "select"
    /\ exit = "closed"
    /\ exitWG' = exitWG - 1
    /\ pc' = "done"
    /\ UNCHANGED <<otherVars, inTraces, MaxSpansPerPayload, bufVars, stats, added, callVars, infoVars,
                   exit, senderState, stopPc, monitorOn, ingested, nRecv, evCount>>
ExitFlush ==
    /\ pc = "select"
    /\ exit = "closed"
    /\ \E r \in MarshalResults : SetW(Flush(W, r))
    /\ exitWG' = exitWG - 1
    /\ pc' = "done"
    /\ UNCHANGED <<otherVars, inTraces, MaxSpansPerPayload, callVars, infoVars, exit, senderState,
                   stopPc, monitorOn, ingested, nRecv, evCount>>

\* --------------------------------------------- sender monitor goroutine
\* the counter the monitor goroutine increments on an event, "" for none
\* (variant: a failure counted as a retry)
EventCounterFailureAsRetry(e) ==
    CASE e = "Success" -> "Payloads"
      [] e = "Failure" -> "Retries"
      [] e = "Retry"   -> "Retries"
      [] OTHER         -> ""
EventCounter(e) ==
    CASE e = "Success" -> "Payloads"
      [] e = "Failure" -> "Errors"
      [] e = "Retry"   -> "Retries"
      [] OTHER         -> ""

\* one iteration of: for event := range w.payloadSender.Monitor()
MonitorEvent ==
    /\ monitorOn
    /\ evCount["Success"] + evCount["Failure"] + evCount["Retry"]
         + evCount["Nil"] + evCount["Unknown"] < MaxEvents
    /\ \E e \in SenderEvents :
         /\ evCount' = [evCount EXCEPT ![e] = @ + 1]
         /\ IF EventCounter(e) = ""
              THEN UNCHANGED <<stats, added>>
              ELSE /\ stats' = AddInt64(stats, EventCounter(e), 1)
                   /\ added' = AddInt64(added, EventCounter(e), 1)
    /\ UNCHANGED <<otherVars, inTraces, MaxSpansPerPayload, bufVars, callVars, infoVars, lifeVars,
                   pc, ingested, nRecv>>

\* ------------------------------------------------------------ updateInfo
\* atomic.SwapInt64(addr, new): the value returned and the value stored
\* (variant: a load, the counter is not reset)
LoadWithoutStore(old, new) == [ret |-> old, val |-> old]
SwapInt64(old, new) == [ret |-> old, val |-> new]

\* case <-updateInfoTicker.C: go w.updateInfo()
\* (variant: updateInfo is called by the loop, which waits for it)
UpdateInfoTickInline ==
    /\ pc = "select"
    /\ nUpdateInfo < MaxUpdateInfo
    /\ nUpdateInfo' = nUpdateInfo + 1
    /\ updaters' = updaters (+) SetToBag({[at |-> 1, twInfo |-> ZeroStats]})
    /\ pc' = "updateInfo"
    /\ UNCHANGED <<otherVars, inTraces, MaxSpansPerPayload, bufVars, stats, added, callVars, statsd,
                   twInfoReg, lifeVars, ingested, nRecv, evCount>>
UpdateInfoTick ==
    /\ pc = "select"
    /\ nUpdateInfo < MaxUpdateInfo
    /\ nUpdateInfo' = nUpdateInfo + 1
    /\ updaters' = updaters (+) SetToBag({[at |-> 1, twInfo |-> ZeroStats]})
    /\ UNCHANGED <<otherVars, inTraces, MaxSpansPerPayload, bufVars, stats, added, callVars, statsd,
                   twInfoReg, lifeVars, pc, ingested, nRecv, evCount>>

\* updateInfo: twInfo.<c> = atomic.SwapInt64(&w.stats.<c>, 0), the g.at-th one
UpdateInfoSwap(g) ==
    /\ g.at \in DOMAIN CounterNames
    /\ LET c == CounterNames[g.at]
           sw == SwapInt64(stats[c], 0)
       IN  /\ stats' = [stats EXCEPT ![c] = sw.val]
           /\ updaters' = (updaters (-) SetToBag({g}))
                  (+) SetToBag({[at |-> g.at + 1,
                                 twInfo |-> [g.twInfo EXCEPT ![c] = sw.ret]]})
    /\ UNCHANGED <<otherVars, inTraces, MaxSpansPerPayload, bufVars, added, callVars, statsd,
                   twInfoReg, nUpdateInfo, lifeVars, pc, ingested, nRecv,
                   evCount>>

\* updateInfo: the six StatsClient.Count calls and info.UpdateTraceWriterInfo,
\* after which the goroutine ends
UpdateInfoPublish(g) ==
    /\ g.at = Len(CounterNames) + 1
    /\ statsd' = [c \in DOMAIN statsd |-> statsd[c] + g.twInfo[c]]
    /\ twInfoReg' = g.twInfo
    /\ updaters' = updaters (-) SetToBag({g})
    /\ UNCHANGED <<otherVars, inTraces, MaxSpansPerPayload, bufVars, stats, added, callVars,
                   nUpdateInfo, lifeVars, pc, ingested, nRecv, evCount>>

UpdateInfoStep ==
    \E g \in BagToSet(updaters) : UpdateInfoSwap(g) \/ UpdateInfoPublish(g)

\* ------------------------------------------------------------------ Stop
\* Stop: close(w.exit)
StopClose ==
    /\ stopPc = "idle"
    /\ exit' = "closed"
    /\ stopPc' = "wait"
    /\ UNCHANGED <<otherVars, inTraces, MaxSpansPerPayload, bufVars, stats, added, callVars, infoVars,
                   exitWG, senderState, monitorOn, pc, ingested, nRecv, evCount>>

\* Stop: w.exitWG.Wait() returns, then w.BaseWriter.Stop()
StopWaitDone ==
    /\ stopPc = "wait"
    /\ exitWG = 0
    /\ senderState' = "stopped"
    /\ stopPc' = "stopped"
    /\ UNCHANGED <<otherVars, inTraces, MaxSpansPerPayload, bufVars, stats, added, callVars, infoVars,
                   exit, exitWG, monitorOn, pc, ingested, nRecv, evCount>>

\* ------------------------------------------------------ quantile summary
\* floor(2 * EPSILON * n), with EPSILON = 1/e
TwoEpsN(e, n) == (2 * n) \div e

\* the number of insertions between two Compress: floor(1 / (2 * EPSILON))
CompressPeriod(e) == e \div 2

\* the position Insert gives a value v: after the entries whose value is <= v
InsertIndex(es, v) == Cardinality({i \in DOMAIN es : es[i].v <= v}) + 1

\* the delta of a new entry: 0 for a new minimum or maximum, else
\* floor(2 * EPSILON * N)
NewDelta(es, i, e, n) ==
    IF i = 1 \/ i = Len(es) + 1 THEN 0 ELSE TwoEpsN(e, n)

\* the entries after the insertion of value v with sample id: a new entry
\* (v, 1, delta, {id}) at its position
InsertEntry(es, v, id, e, n) ==
    LET i == InsertIndex(es, v)
        new == [v |-> v, g |-> 1, delta |-> NewDelta(es, i, e, n),
                samples |-> <<id>>]
    IN  SubSeq(es, 1, i - 1) \o <<new>> \o SubSeq(es, i, Len(es))

\* entries i and i+1 may be merged
MayMerge(es, i, thr) == es[i].g + es[i + 1].g + es[i + 1].delta <= thr

\* entries i and i+1 merged into the right one
MergeInto(es, i) ==
    LET m == [v |-> es[i + 1].v, g |-> es[i].g + es[i + 1].g,
              delta |-> es[i + 1].delta,
              samples |-> es[i].samples \o es[i + 1].samples]
    IN  SubSeq(es, 1, i - 1) \o <<m>> \o SubSeq(es, i + 2, Len(es))

\* Compress, walking from entry i down: the first and the last entry are
\* never merged
RECURSIVE CompressFrom(_, _, _)
CompressFrom(es, i, thr) ==
    IF i < 2 THEN es
    ELSE IF i + 1 < Len(es) /\ MayMerge(es, i, thr)
        THEN CompressFrom(MergeInto(es, i), i - 1, thr)
    ELSE CompressFrom(es, i - 1, thr)

Compress(es, e, n) == CompressFrom(es, Len(es) - 2, TwoEpsN(e, n))

\* the sum of g over the first i entries
RECURSIVE CumG(_, _)
CumG(es, i) == IF i = 0 THEN 0 ELSE es[i].g + CumG(es, i - 1)

\* rank = ceil(q * N), for q = k/QDen
QuantileRank(k, n) == (k * n + QDen - 1) \div QDen

\* the entries the left-to-right scan of Quantile(k/QDen) stops at: the first
\* for which cumG + delta >= rank + EPSILON * N
ScanStops(es, k, e, n) ==
    {i \in DOMAIN es :
        /\ e * (CumG(es, i) + es[i].delta) >= e * QuantileRank(k, n) + n
        /\ \A j \in 1..(i - 1) :
              e * (CumG(es, j) + es[j].delta) < e * QuantileRank(k, n) + n}

\* the entries Quantile(k/QDen) may return: the minimum for q = 0, the
\* maximum for q = 1, else the entry the scan stops at; what is returned
\* when the scan reaches the end is not defined, and may be any entry
QuantileEntries(es, k, e, n) ==
    IF k = 0 THEN {1}
    ELSE IF k = QDen THEN {Len(es)}
    ELSE IF ScanStops(es, k, e, n) # {} THEN ScanStops(es, k, e, n)
    ELSE DOMAIN es

\* Summary.Insert(v, id), with the Compress that is due every CompressPeriod
\* insertions and may be run on any other
SummaryInsert ==
    /\ sN < MaxInserts
    /\ \E v \in 1..MaxValue, opportunistic \in BOOLEAN :
         LET es == InsertEntry(entries, v, sN + 1, epsInv, sN)
             due == (sN + 1) % CompressPeriod(epsInv) = 0
         IN  /\ entries' = IF due \/ opportunistic
                              THEN Compress(es, epsInv, sN + 1) ELSE es
             /\ inserted' = Append(inserted, v)
    /\ sN' = sN + 1
    /\ UNCHANGED <<writerVars, bucketVars, normVars, filterVars, epsInv, qRes>>

\* Summary.Quantile(k/QDen): an error on an empty summary
SummaryQuantile ==
    \E k \in 0..QDen :
        /\ IF sN = 0
             THEN qRes' = [q |-> k, n |-> 0, err |-> TRUE, v |-> 0,
                          samples |-> <<>>]
             ELSE \E i \in QuantileEntries(entries, k, epsInv, sN) :
                    qRes' = [q |-> k, n |-> sN, err |-> FALSE,
                             v |-> entries[i].v,
                             samples |-> entries[i].samples]
        /\ UNCHANGED <<writerVars, bucketVars, normVars, filterVars, epsInv, entries, sN,
                       inserted>>

SummaryNext ==
    \/ SummaryInsert
    \/ SummaryQuantile

\* a summary of some EPSILON, fed values and queried; the writer is not started
SummaryInit ==
    /\ WriterInit({1})
    /\ NewWriter
    /\ NormIdle
    /\ FilterIdle
    /\ \E e \in MinEpsInv..MaxEpsInv : NewSummary(e)

SummarySpec == SummaryInit /\ [][SummaryNext]_vars

\* ------------------------------------------------------- span normalizer
\* strings are sequences of one-character strings
LowerCase == {"a", "b", "c", "d", "e", "f", "g", "h", "i", "j", "k", "l", "m",
              "n", "o", "p", "q", "r", "s", "t", "u", "v", "w", "x", "y", "z"}
UpperCase == {"A", "B", "C", "D", "E", "F", "G", "H", "I", "J", "K", "L", "M",
              "N", "O", "P", "Q", "R", "S", "T", "U", "V", "W", "X", "Y", "Z"}
DigitChars == <<"0", "1", "2", "3", "4", "5", "6", "7", "8", "9">>

isAlpha(b) == b \in LowerCase \/ b \in UpperCase
isAlphaNum(b) == isAlpha(b) \/ b \in Range(DigitChars)

\* the value of a decimal digit
DigitValue(b) == (CHOOSE i \in DOMAIN DigitChars : DigitChars[i] = b) - 1

\* strconv.ParseUint(sc, 10, 64) of a string of a few characters: the value,
\* or -1 for the error
RECURSIVE ParseUintFrom(_, _, _)
ParseUintFrom(sc, i, acc) ==
    IF i > Len(sc) THEN acc
    ELSE IF sc[i] \notin Range(DigitChars) THEN -1
    ELSE ParseUintFrom(sc, i + 1, 10 * acc + DigitValue(sc[i]))

ParseUint(sc) == IF sc = <<>> THEN -1 ELSE ParseUintFrom(sc, 1, 0)

isValidStatusCode(sc) ==
    LET code == ParseUint(sc)
    IN  code # -1 /\ 100 <= code /\ code < 600

\* the characters NormalizeTag keeps
TagChars == LowerCase \cup Range(DigitChars) \cup {"_", "-", ":", ".", "/"}

\* the first index of s from i on whose character is alphabetic, Len(s) + 1
\* if there is none
RECURSIVE SkipNonAlpha(_, _)
SkipNonAlpha(s, i) ==
    IF i > Len(s) \/ isAlpha(s[i]) THEN i ELSE SkipNonAlpha(s, i + 1)

\* NormalizeTag: the tag without the characters a tag may not hold and
\* without what precedes its first letter
NormalizeTag(tag) ==
    LET kept == SelectSeq(tag, LAMBDA c : c \in TagChars)
    IN  SubSeq(kept, SkipNonAlpha(kept, 1), Len(kept))

\* the second loop of normMetricNameParse, from index i with res built so far
RECURSIVE NormNameFrom(_, _, _)
NormNameFrom(name, i, res) ==
    IF i > Len(name) THEN res
    ELSE LET c == name[i]
             last == res[Len(res)]
         IN  NormNameFrom(name, i + 1,
                 IF isAlphaNum(c) THEN Append(res, c)
                 ELSE IF c = "."
                     THEN IF last = "_" THEN [res EXCEPT ![Len(res)] = "."]
                          ELSE Append(res, ".")
                 ELSE IF last \in {".", "_"} THEN res
                 ELSE Append(res, "_"))

normMetricNameParse(name) ==
    IF name = <<>> \/ Len(name) > MaxNameLen THEN [name |-> name, ok |-> FALSE]
    ELSE LET i == SkipNonAlpha(name, 1)
             res == NormNameFrom(name, i, <<>>)
         IN  IF i = Len(name) + 1 THEN [name |-> <<>>, ok |-> FALSE]
             ELSE IF res[Len(res)] = "_"
                 THEN [name |-> SubSeq(res, 1, Len(res) - 1), ok |-> TRUE]
             ELSE [name |-> res, ok |-> TRUE]

\* a signed sum on TimeBits bits, as the int64 sum wraps on 64
WrapAdd(a, b) ==
    ((a + b + 2 ^ (TimeBits - 1)) % (2 ^ TimeBits)) - 2 ^ (TimeBits - 1)

MaxTime == 2 ^ (TimeBits - 1) - 1

\* Span.Normalize, the part after the checks of the identifiers: ParentID,
\* Start, Duration, Type and Meta
NormalizeTimes(s, now) ==
    LET s1 == IF s.ParentID = s.TraceID /\ s.ParentID = s.SpanID
                THEN [s EXCEPT !.ParentID = 0] ELSE s
        env == IF "env" \in DOMAIN s1.Meta
                 THEN [s1 EXCEPT !.Meta["env"] = NormalizeTag(@)] ELSE s1
        sc == IF "http.status_code" \in DOMAIN env.Meta
                   /\ ~isValidStatusCode(env.Meta["http.status_code"])
                THEN [env EXCEPT !.Meta =
                        [k \in DOMAIN @ \ {"http.status_code"} |-> @[k]]]
                ELSE env
    IN  IF s1.Start < Year2000Scaled
            THEN [span |-> s1, err |-> "invalid Start"]
        ELSE IF WrapAdd(s1.Start, s1.Duration) > now + EndOffsetScaled
            THEN [span |-> s1, err |-> "in the future"]
        ELSE IF s1.Duration <= 0
            THEN [span |-> s1, err |-> "durations need to be strictly positive"]
        ELSE IF Len(s1.Type) > MaxTypeLen
            THEN [span |-> s1, err |-> "Type too long"]
        ELSE [span |-> sc, err |-> "nil"]

\* Span.Normalize at time now: the span as it is left and the error
Normalize(s, now) ==
    LET s1 == [s EXCEPT !.Service = NormalizeTag(@)]
        parsed == normMetricNameParse(s1.Name)
        s2 == [s1 EXCEPT !.Name = parsed.name]
    IN  IF s.Service = <<>> THEN [span |-> s, err |-> "empty Service"]
        ELSE IF Len(s.Service) > MaxServiceLen
            THEN [span |-> s, err |-> "Service too long"]
        ELSE IF s1.Service = <<>>
            THEN [span |-> s1, err |-> "Service could not be normalized"]
        ELSE IF s1.Name = <<>> THEN [span |-> s1, err |-> "empty Name"]
        ELSE IF Len(s1.Name) > MaxNameLen
            THEN [span |-> s1, err |-> "Name too long"]
        ELSE IF ~parsed.ok THEN [span |-> s2, err |-> "invalid Name"]
        ELSE IF s2.Resource = <<>> THEN [span |-> s2, err |-> "empty Resource"]
        ELSE IF s2.TraceID = 0 THEN [span |-> s2, err |-> "empty TraceID"]
        ELSE IF s2.SpanID = 0 THEN [span |-> s2, err |-> "empty SpanID"]
        ELSE NormalizeTimes(s2, now)

\* the loop of NormalizeTrace from span i on
\* (variant: the span id is not recorded)
RECURSIVE NormalizeTraceFromNoRecord(_, _, _, _, _)
NormalizeTraceFromNoRecord(t, i, spanIDs, traceID, now) ==
    IF i > Len(t) THEN [trace |-> t, err |-> "nil"]
    ELSE LET span == t[i]
             r == Normalize(t[i], now)
             t1 == [t EXCEPT ![i] = r.span]
         IN  IF span.SpanID \in spanIDs
                 THEN [trace |-> t, err |-> "duplicate span id"]
             ELSE IF span.TraceID # traceID
                 THEN [trace |-> t, err |-> "trace id mismatch"]
             ELSE IF r.err # "nil" THEN [trace |-> t1, err |-> "invalid span"]
             ELSE NormalizeTraceFromNoRecord(t1, i + 1, spanIDs, traceID, now)
RECURSIVE NormalizeTraceFrom(_, _, _, _, _)
NormalizeTraceFrom(t, i, spanIDs, traceID, now) ==
    IF i > Len(t) THEN [trace |-> t, err |-> "nil"]
    ELSE LET span == t[i]
             r == Normalize(t[i], now)
             t1 == [t EXCEPT ![i] = r.span]
         IN  IF span.SpanID \in spanIDs
                 THEN [trace |-> t, err |-> "duplicate span id"]
             ELSE IF span.TraceID # traceID
                 THEN [trace |-> t, err |-> "trace id mismatch"]
             ELSE IF r.err # "nil" THEN [trace |-> t1, err |-> "invalid span"]
             ELSE NormalizeTraceFrom(t1, i + 1, spanIDs \cup {span.SpanID},
                                     traceID, now)

NormalizeTrace(t, now) ==
    IF Len(t) = 0 THEN [trace |-> t, err |-> "empty trace"]
    ELSE NormalizeTraceFrom(t, 1, {}, t[1].TraceID, now)

\* a string of n characters
LongString(n) == [i \in 1..n |-> "a"]

\* a span that Normalize accepts, of trace t and span id s (0 is rejected)
GoodSpan(t, s) ==
    [Service |-> <<"w", "e", "b">>, Name |-> <<"g", "e", "t">>,
     Resource |-> <<"r">>, TraceID |-> t, SpanID |-> s, ParentID |-> 0,
     Start |-> NowScaled - 2, Duration |-> 1, Type |-> <<>>,
     Meta |-> <<>>]

\* one field of a span and a value for it
SpanEdits ==
    <<[f |-> "Service", v |-> <<>>],
     [f |-> "Service", v |-> LongString(MaxServiceLen + 1)],
     [f |-> "Service", v |-> <<"!", "?">>],
     [f |-> "Service", v |-> <<"1", "W", "e", "b", " ", "x">>],
     [f |-> "Name", v |-> <<>>],
     [f |-> "Name", v |-> LongString(MaxNameLen + 1)],
     [f |-> "Name", v |-> <<"1", "2">>],
     [f |-> "Name", v |-> <<"1", "g", "_", ".", "e", "!", "!", "t", "-">>],
     [f |-> "Resource", v |-> <<>>],
     [f |-> "ParentID", v |-> 1],
     [f |-> "Start", v |-> Year2000Scaled - 1],
     [f |-> "Start", v |-> NowScaled + EndOffsetScaled],
     [f |-> "Duration", v |-> 0],
     [f |-> "Duration", v |-> -1],
     [f |-> "Duration", v |-> EndOffsetScaled + 2],
     [f |-> "Duration", v |-> MaxTime],
     [f |-> "Type", v |-> LongString(MaxTypeLen + 1)],
     [f |-> "Meta", v |-> [k \in {"env"} |-> <<"P", "r", "o", "d">>]],
     [f |-> "Meta", v |-> [k \in {"http.status_code"} |-> <<"9", "9">>]],
     [f |-> "Meta", v |-> [k \in {"http.status_code"} |-> <<"2", "0", "0">>]],
     [f |-> "Meta", v |-> [k \in {"http.status_code"} |-> <<"2", "x">>]]>>

\* the spans passed in: the good spans of every trace and span id, and the
\* spans of trace 1 that differ from a good one in one field
NormSpans ==
    {GoodSpan(t, s) : t \in 0..MaxID, s \in 0..MaxID}
        \cup {[GoodSpan(1, s) EXCEPT ![SpanEdits[e].f] = SpanEdits[e].v] :
                 e \in DOMAIN SpanEdits, s \in 1..MaxID}

\* the traces passed in
NormTraces ==
    UNION {[1..n -> NormSpans] : n \in 0..MaxNormTraceLen}

\* the call NormalizeTrace(normIn) at time normNow
NormalizeTraceCall ==
    /\ normPc = "ready"
    /\ normRes' = NormalizeTrace(normIn, normNow)
    /\ normPc' = "done"
    /\ UNCHANGED <<writerVars, bucketVars, sketchVars, filterVars, normIn, normNow>>

\* NormalizeTrace called on a trace, the other components not in use
NormInit ==
    /\ WriterInit({1})
    /\ NewWriter
    /\ NewSummary(MinEpsInv)
    /\ FilterIdle
    /\ \E t \in NormTraces : NormReady(t, NowScaled, "ready")

NormSpec == NormInit /\ [][NormalizeTraceCall]_vars

\* -------------------------------------------------------- resource filter
\* regexp.Compile of an expression made of literal characters, ".", the
\* postfix "*" and "+", and "[" (no "]" is ever written, so that a class is
\* never closed): the atoms with their repetition, or an error
RECURSIVE CompileFrom(_, _, _)
CompileFrom(expr, i, toks) ==
    IF i > Len(expr) THEN [ok |-> TRUE, toks |-> toks]
    ELSE IF expr[i] = "[" THEN [ok |-> FALSE, toks |-> <<>>]
    ELSE IF expr[i] \in {"*", "+"}
        THEN IF toks = <<>> \/ toks[Len(toks)].rep # "one"
               THEN [ok |-> FALSE, toks |-> <<>>]
               ELSE CompileFrom(expr, i + 1,
                        [toks EXCEPT ![Len(toks)].rep =
                            IF expr[i] = "*" THEN "star" ELSE "plus"])
    ELSE CompileFrom(expr, i + 1, Append(toks, [c |-> expr[i], rep |-> "one"]))

Compile(expr) == CompileFrom(expr, 1, <<>>)

\* an atom matches a character
AtomMatches(tok, ch) == tok.c = "." \/ tok.c = ch

\* the number of characters of s from position i on that the atom matches
RECURSIVE RunLen(_, _, _)
RunLen(tok, s, i) ==
    IF i > Len(s) \/ ~AtomMatches(tok, s[i]) THEN 0
    ELSE 1 + RunLen(tok, s, i + 1)

\* the end of the match of the atoms from the k-th on at position i of s
\* (the position after its last character), 0 if there is none; a repetition
\* takes as many characters as leave a match of what follows
RECURSIVE MatchEnd(_, _, _, _)
RECURSIVE TryRep(_, _, _, _, _)
MatchEnd(toks, k, s, i) ==
    IF k > Len(toks) THEN i
    ELSE IF toks[k].rep = "one"
        THEN IF i <= Len(s) /\ AtomMatches(toks[k], s[i])
               THEN MatchEnd(toks, k + 1, s, i + 1) ELSE 0
    ELSE TryRep(toks, k, s, i, RunLen(toks[k], s, i))
TryRep(toks, k, s, i, n) ==
    IF n < (IF toks[k].rep = "plus" THEN 1 ELSE 0) THEN 0
    ELSE IF MatchEnd(toks, k + 1, s, i + n) # 0
        THEN MatchEnd(toks, k + 1, s, i + n)
    ELSE TryRep(toks, k, s, i, n - 1)

\* the positions of s from position from on where the expression matches
MatchStarts(re, s, from) ==
    {p \in from..(Len(s) + 1) : MatchEnd(re, 1, s, p) # 0}

\* Regexp.MatchString
MatchString(re, s) == MatchStarts(re, s, 1) # {}

SetMin(S) == CHOOSE x \in S : \A y \in S : x <= y

\* Regexp.ReplaceAllString from position searchPos on, the last match having
\* ended at lastEnd: a match of the empty string right after a match is not
\* replaced, and the search advances by one character at least
RECURSIVE ReplaceFrom(_, _, _, _, _, _)
ReplaceFrom(re, src, repl, searchPos, lastEnd, buf) ==
    IF searchPos > Len(src) + 1 \/ MatchStarts(re, src, searchPos) = {}
        THEN buf \o SubSeq(src, lastEnd, Len(src))
    ELSE LET a0 == SetMin(MatchStarts(re, src, searchPos))
             a1 == MatchEnd(re, 1, src, a0)
             copied == buf \o SubSeq(src, lastEnd, a0 - 1)
             width == IF searchPos <= Len(src) THEN 1 ELSE 0
             next == IF searchPos + width > a1 THEN searchPos + width
                     ELSE IF searchPos + 1 > a1 THEN searchPos + 1
                     ELSE a1
         IN  ReplaceFrom(re, src, repl, next, a1,
                 IF a1 > lastEnd \/ a0 = 1 THEN copied \o repl ELSE copied)

ReplaceAllString(re, src, repl) == ReplaceFrom(re, src, repl, 1, 1, <<>>)

\* compileRules: the expressions that compile, in the order of the entries
RECURSIVE compileRules(_)
compileRules(exprs) ==
    IF exprs = <<>> THEN <<>>
    ELSE LET rule == Compile(Head(exprs))
         IN  (IF rule.ok THEN <<rule.toks>> ELSE <<>>)
                 \o compileRules(Tail(exprs))

\* compileSearchReplace: the entries of two strings whose first compiles
RECURSIVE compileSearchReplace(_)
compileSearchReplace(ents) ==
    IF ents = <<>> THEN <<>>
    ELSE LET entry == Head(ents)
             search == Compile(entry[1])
         IN  (IF Len(entry) # 2 THEN <<>>
              ELSE IF ~search.ok THEN <<>>
              ELSE <<[key |-> search.toks, value |-> entry[2]]>>)
                 \o compileSearchReplace(Tail(ents))

\* resourceFilter.Keep, from the k-th entry of the blacklist on
\* (variant: only the first entry is looked at)
RECURSIVE KeepFirstOnly(_, _, _)
KeepFirstOnly(bl, k, resource) ==
    IF k > Len(bl) \/ k > 1 THEN TRUE
    ELSE IF MatchString(bl[k], resource) THEN FALSE
    ELSE KeepFirstOnly(bl, k + 1, resource)
RECURSIVE Keep(_, _, _)
Keep(bl, k, resource) ==
    IF k > Len(bl) THEN TRUE
    ELSE IF MatchString(bl[k], resource) THEN FALSE
    ELSE Keep(bl, k + 1, resource)

\* span.Meta["http.url"], the empty string when the key is not set
MetaURL(span) ==
    IF "http.url" \in DOMAIN span.Meta THEN span.Meta["http.url"] ELSE <<>>

\* span.Meta["http.url"] = url: a write to a nil map panics
SetMetaURL(span, url) ==
    IF span.NilMeta THEN [span |-> span, panicked |-> TRUE]
    ELSE [span |-> [span EXCEPT !.Meta =
                      [k \in DOMAIN @ \cup {"http.url"} |->
                          IF k = "http.url" THEN url ELSE @[k]]],
          panicked |-> FALSE]

\* the loop of ApplyRegex over f.searchReplace for one span, from the k-th
\* entry on
RECURSIVE ApplyRules(_, _, _)
ApplyRules(span, sr, k) ==
    IF k > Len(sr) THEN [span |-> span, panicked |-> FALSE]
    ELSE IF MatchString(sr[k].key, MetaURL(span))
        THEN LET set == SetMetaURL(span,
                            ReplaceAllString(sr[k].key, MetaURL(span),
                                             sr[k].value))
             IN  IF set.panicked THEN set
                 ELSE ApplyRules(set.span, sr, k + 1)
    ELSE ApplyRules(span, sr, k + 1)

\* resourceFilter.ApplyRegex, from the i-th span of the trace on
\* (variant: only the first span is rewritten)
RECURSIVE ApplyRegexFirstSpan(_, _, _)
ApplyRegexFirstSpan(t, sr, i) ==
    IF i > Len(t) \/ i > 1 THEN [trace |-> t, panicked |-> FALSE]
    ELSE LET r == ApplyRules(t[i], sr, 1)
         IN  IF r.panicked THEN [trace |-> t, panicked |-> TRUE]
             ELSE ApplyRegexFirstSpan([t EXCEPT ![i] = r.span], sr, i + 1)
RECURSIVE ApplyRegex(_, _, _)
ApplyRegex(t, sr, i) ==
    IF i > Len(t) THEN [trace |-> t, panicked |-> FALSE]
    ELSE LET r == ApplyRules(t[i], sr, 1)
         IN  IF r.panicked THEN [trace |-> t, panicked |-> TRUE]
             ELSE ApplyRegex([t EXCEPT ![i] = r.span], sr, i + 1)

\* the sequences of at most n elements of S
SeqsUpTo(S, n) == UNION {[1..m -> S] : m \in 0..n}

\* the expressions of conf.Ignore["resource"]: two that compile, two that
\* do not
IgnoreExprs == {<<"a", "b">>, <<"b", "+">>, <<"[", "a">>, <<"+", "a">>}

\* the entries of conf.Regex["resource"]: four rules that compile, one of
\* which matches the empty string, one that does not compile and an entry
\* that is not made of two strings
RegexEntries ==
    {<<<<"a">>, <<"b">>>>, <<<<"b", "+">>, <<"a">>>>,
     <<<<"a", ".">>, <<"c", "c", "c">>>>,
     <<<<"x", "*">>, <<"y">>>>, <<<<"[", "a">>, <<"z">>>>,
     <<<<"a">>, <<"z">>, <<"z">>>>}

\* the strings over a and b of at most n characters
ABStrings(n) == SeqsUpTo({"a", "b"}, n)

\* the spans passed to ApplyRegex: with a url, with a Meta without url, and
\* with a nil Meta
FilterSpans ==
    {[Resource |-> <<"r">>, NilMeta |-> FALSE,
      Meta |-> [k \in {"http.url"} |-> u]] : u \in ABStrings(MaxResourceLen)}
        \cup {[Resource |-> <<"r">>, NilMeta |-> n, Meta |-> <<>>] :
                 n \in BOOLEAN}

\* the traces passed to ApplyRegex: of no span, of one and of two, each span
\* being rewritten by itself
FilterTraces == SeqsUpTo(FilterSpans, 2)

\* newResourceFilter(conf)
NewResourceFilter ==
    /\ filterPc = "conf"
    /\ blacklist' = compileRules(confIgnore)
    /\ searchReplace' = compileSearchReplace(confRegex)
    /\ filterPc' = "ready"
    /\ UNCHANGED <<writerVars, bucketVars, sketchVars, normVars, confIgnore, confRegex,
                   filterCall>>

\* a call f.Keep(span); a call leaves the filter as it is, and one call is
\* followed
KeepCall ==
    /\ filterPc = "ready"
    /\ filterCall.op = "none"
    /\ \E resource \in ABStrings(MaxResourceLen) :
         filterCall' = [op |-> "Keep", in |-> resource,
                        out |-> Keep(blacklist, 1, resource)]
    /\ UNCHANGED <<writerVars, bucketVars, sketchVars, normVars, confIgnore, confRegex,
                   blacklist, searchReplace, filterPc>>

\* a call f.ApplyRegex(trace); a call leaves the filter as it is, and one
\* call is followed
ApplyRegexCall ==
    /\ filterPc = "ready"
    /\ filterCall.op = "none"
    /\ \E t \in FilterTraces :
         LET r == ApplyRegex(t, searchReplace, 1)
         IN  filterCall' = [op |-> "ApplyRegex", in |-> t, out |-> r.trace,
                            panicked |-> r.panicked]
    /\ UNCHANGED <<writerVars, bucketVars, sketchVars, normVars, confIgnore, confRegex,
                   blacklist, searchReplace, filterPc>>

\* a filter built from a blacklist, and Keep called on spans
KeepInit ==
    /\ WriterInit({1})
    /\ NewWriter
    /\ NewSummary(MinEpsInv)
    /\ NormIdle
    /\ \E ignore \in SeqsUpTo(IgnoreExprs, MaxRules) :
          FilterConf(ignore, <<>>, "conf")

KeepSpec == KeepInit /\ [][NewResourceFilter \/ KeepCall]_vars

\* a filter built from search/replace rules, and ApplyRegex called on traces
ApplyRegexInit ==
    /\ WriterInit({1})
    /\ NewWriter
    /\ NewSummary(MinEpsInv)
    /\ NormIdle
    /\ \E regex \in SeqsUpTo(RegexEntries, MaxRules) :
          FilterConf(<<>>, regex, "conf")

ApplyRegexSpec == ApplyRegexInit /\ [][NewResourceFilter \/ ApplyRegexCall]_vars

\* ----------------------------------------------------------- bucket Writer
\* Writer.Flush on the buffer buf, errAt the index of the first payload for
\* which endpoint.Write returns an error (Len(buf) + 1: none does): the
\* buffer it leaves and the Write calls it made, in order
\* (variant: the payloads not written are kept for the next Flush)
WriterFlushKeepsFailed(buf, errAt) ==
    [payloadsToWrite |-> SubSeq(buf, errAt, Len(buf)),
     writes |-> [i \in 1..(IF errAt <= Len(buf) THEN errAt ELSE Len(buf))
                   |-> [p |-> buf[i], ok |-> i # errAt]]]
WriterFlush(buf, errAt) ==
    IF Len(buf) = 0 THEN [payloadsToWrite |-> buf, writes |-> <<>>]
    ELSE [payloadsToWrite |-> <<>>,
          writes |-> [i \in 1..(IF errAt <= Len(buf) THEN errAt ELSE Len(buf))
                        |-> [p |-> buf[i], ok |-> i # errAt]]]

\* Writer.FlushServices with services version ver, flushed the last version
\* flushed: whether endpoint.WriteServices is called, and the svcsFlushed it
\* leaves; err is whether WriteServices returns an error
\* (variant: svcsFlushed is left as it was when the write fails)
WriterFlushServicesRetry(ver, flushed, err) ==
    IF flushed = ver THEN [called |-> FALSE, svcsFlushed |-> flushed]
    ELSE [called |-> TRUE, svcsFlushed |-> IF err THEN flushed ELSE ver]
WriterFlushServices(ver, flushed, err) ==
    IF flushed = ver THEN [called |-> FALSE, svcsFlushed |-> flushed]
    ELSE [called |-> TRUE, svcsFlushed |-> ver]

\* Writer.Start: go w.run()
WriterStart ==
    /\ runPc = "new"
    /\ runPc' = "select"
    /\ UNCHANGED <<writerVars, sketchVars, normVars, filterVars,
                   payloadsToWrite, svcsVer, svcsFlushed, runExit, nPayloads,
                   written, svcsWritten>>

\* run, case p := <-w.in: the payload is appended to w.payloadsToWrite
RunReceivePayload ==
    /\ runPc = "select"
    /\ nPayloads < MaxPayloads
    /\ nPayloads' = nPayloads + 1
    /\ payloadsToWrite' = Append(payloadsToWrite, nPayloads + 1)
    /\ runPc' = "Flush"
    /\ UNCHANGED <<writerVars, sketchVars, normVars, filterVars, svcsVer,
                   svcsFlushed, runExit, written, svcsWritten>>

\* run, after the append: w.Flush()
RunFlush ==
    /\ runPc = "Flush"
    /\ \E errAt \in 1..(Len(payloadsToWrite) + 1) :
         LET res == WriterFlush(payloadsToWrite, errAt)
         IN  /\ payloadsToWrite' = res.payloadsToWrite
             /\ written' = written \o res.writes
    /\ runPc' = "FlushServices"
    /\ UNCHANGED <<writerVars, sketchVars, normVars, filterVars, svcsVer,
                   svcsFlushed, runExit, nPayloads, svcsWritten>>

\* run, after w.Flush(): w.FlushServices()
RunFlushServices ==
    /\ runPc = "FlushServices"
    /\ \E err \in BOOLEAN :
         LET res == WriterFlushServices(svcsVer, svcsFlushed, err)
         IN  /\ svcsFlushed' = res.svcsFlushed
             /\ svcsWritten' =
                    IF res.called
                        THEN Append(svcsWritten, [ver |-> svcsVer, ok |-> ~err])
                        ELSE svcsWritten
    /\ runPc' = "select"
    /\ UNCHANGED <<writerVars, sketchVars, normVars, filterVars,
                   payloadsToWrite, svcsVer, runExit, nPayloads, written>>

\* run, case sm := <-w.inServices: w.svcs.Update(sm); w.svcsVer++
RunReceiveServices ==
    /\ runPc = "select"
    /\ svcsVer < MaxSvcsVer
    /\ svcsVer' = svcsVer + 1
    /\ UNCHANGED <<writerVars, sketchVars, normVars, filterVars,
                   payloadsToWrite, svcsFlushed, runPc, runExit, nPayloads,
                   written, svcsWritten>>

\* w.exit is signalled
RunExitSignal ==
    /\ runExit = "open"
    /\ runExit' = "closed"
    /\ UNCHANGED <<writerVars, sketchVars, normVars, filterVars,
                   payloadsToWrite, svcsVer, svcsFlushed, runPc, nPayloads,
                   written, svcsWritten>>

\* run, case <-w.exit: w.Flush(); w.wg.Done(); return
RunExit ==
    /\ runPc = "select"
    /\ runExit = "closed"
    /\ \E errAt \in 1..(Len(payloadsToWrite) + 1) :
         LET res == WriterFlush(payloadsToWrite, errAt)
         IN  /\ payloadsToWrite' = res.payloadsToWrite
             /\ written' = written \o res.writes
    /\ runPc' = "done"
    /\ UNCHANGED <<writerVars, sketchVars, normVars, filterVars, svcsVer,
                   svcsFlushed, runExit, nPayloads, svcsWritten>>

BucketNext ==
    \/ WriterStart
    \/ RunReceivePayload
    \/ RunFlush
    \/ RunFlushServices
    \/ RunReceiveServices
    \/ RunExitSignal
    \/ RunExit

\* the bucket Writer alone, the other components not in use
BucketInit ==
    /\ WriterInit({1})
    /\ NewSummary(MinEpsInv)
    /\ NormIdle
    /\ FilterIdle
    /\ NewWriter

BucketSpec == BucketInit /\ [][BucketNext]_vars

\* the writer goroutine
WriterNext ==
    \/ Start
    \/ RunEnter
    \/ ReceiveNil
    \/ ReceiveTrace
    \/ HandleEmptyTrace
    \/ HandleTrace
    \/ FlushTick
    \/ ExitFlush

Next ==
    \/ WriterNext
    \/ MonitorEvent
    \/ UpdateInfoTick
    \/ UpdateInfoStep
    \/ StopClose
    \/ StopWaitDone

Spec == Init /\ [][Next]_vars

\* the writer goroutine and Stop, while the sender emits no event and the
\* updateInfo ticker does not fire
WriterSpec == Init /\ [][WriterNext \/ StopClose \/ StopWaitDone]_vars

\* the counters: the writer goroutine fed a few short traces, before Stop is
\* called, with the sender monitor and the updateInfo goroutines
StatsNext ==
    \/ Start
    \/ RunEnter
    \/ ReceiveShortTrace
    \/ HandleTrace
    \/ FlushTick
    \/ MonitorEvent
    \/ UpdateInfoTick
    \/ UpdateInfoStep

StatsSpec == Init /\ [][StatsNext]_vars

\* the writer goroutine and Stop under the scheduling of the select statement:
\* an exit case that stays ready is taken
LiveSpec == WriterSpec /\ WF_vars(ExitFlush)

\* the writer goroutine fed a few short traces, the updateInfo goroutines and
\* the close of exit by Stop; an exit case that stays ready is taken, while an
\* updateInfo goroutine may stay in a stats-client call for ever
InfoNext ==
    \/ Start
    \/ RunEnter
    \/ ReceiveShortTrace
    \/ HandleTrace
    \/ FlushTick
    \/ ExitFlush
    \/ UpdateInfoTick
    \/ UpdateInfoStep
    \/ StopClose

InfoSpec == Init /\ [][InfoNext]_vars /\ WF_vars(ExitFlush)

\* the writer goroutine fed through the InTraces channel by a producer that
\* does not stop at the close of exit
DrainNext ==
    \/ Start
    \/ RunEnter
    \/ SendTrace
    \/ ReceiveQueued
    \/ HandleTrace
    \/ FlushTick
    \/ ExitFlush
    \/ StopClose

DrainSpec == Init /\ [][DrainNext]_vars

\* ------------------------------------------------------------ properties
\* the number of copies of each element of a sequence
SeqToBag(s) == [x \in Range(s) |-> Cardinality({i \in DOMAIN s : s[i] = x})]

\* the APITraces handed to the sender, in order, then those in the buffer
SentTraces == Concat([i \in DOMAIN sent |-> sent[i].Traces])
AllFragments == SentTraces \o traces

\* the spans handed to the sender, in order
SentSpans == SpansOf(SentTraces)

\* the number of spans of a payload
PayloadSpans(p) == Len(SpansOf(p.Traces))

\* C1: spansInBuffer never exceeds MaxSpansPerPayload, whatever the sequence
\* of handleTrace and flush calls, and the panic of handleTrace is not reached.
CapInvariant ==
    /\ spansInBuffer <= MaxSpansPerPayload
    /\ pc # "panic"

\* a trace longer than the cap was split and handled to the end
CapInvariantWitness ==
    /\ pc = "select"
    /\ ingested # <<>>
    /\ Len(ingested[Len(ingested)]) > MaxSpansPerPayload
    /\ spansInBuffer > 0
    /\ sent # <<>>

\* C2: the spans in the payloads handed to the sender, those in the buffer and
\* those of the trace still being handled are, as a multiset, the spans of the
\* traces passed to handleTrace: none is lost, none is duplicated.
Conservation ==
    SeqToBag(SentSpans \o SpansOf(traces) \o callTrace)
        = SeqToBag(Concat(ingested))

\* two payloads were sent and spans remain in the buffer
ConservationWitness ==
    /\ pc = "select"
    /\ Len(sent) >= 2
    /\ spansInBuffer > 0
    /\ Len(ingested) >= 2

\* the fragments of the i-th trace, in the order of the payloads and then
\* the buffer
FragmentsOf(i) ==
    SelectSeq(AllFragments,
              LAMBDA f : f.Spans # <<>> /\ f.Spans[1][1] = i)

\* f is a contiguous slice of one of the traces passed in: it is empty, or it
\* is the slice of the trace of its first span that starts at that span
IsSlice(f) ==
    \/ f.Spans = <<>>
    \/ \E i \in DOMAIN ingested :
          \E a \in DOMAIN ingested[i] :
              /\ f.Spans[1] = ingested[i][a]
              /\ a + Len(f.Spans) - 1 <= Len(ingested[i])
              /\ f.Spans = SubSeq(ingested[i], a, a + Len(f.Spans) - 1)

\* C3: every fragment in a payload or in the buffer is a contiguous slice of
\* one input trace, and the fragments of a trace, taken in payload order and
\* followed by what is buffered and by what is still to be handled, make up
\* the trace as it was passed in.
IntraTraceOrder ==
    /\ LET frags == AllFragments
       IN  \A k \in DOMAIN frags : IsSlice(frags[k])
    /\ \A i \in DOMAIN ingested :
         SpansOf(FragmentsOf(i))
             \o (IF i = Len(ingested) THEN callTrace ELSE <<>>)
           = ingested[i]

\* a trace was split over three payloads
IntraTraceOrderWitness ==
    /\ pc = "select"
    /\ \E i \in DOMAIN ingested :
         /\ Len(FragmentsOf(i)) >= 3
         /\ Cardinality({k \in DOMAIN sent :
               \E j \in DOMAIN sent[k].Traces :
                   /\ sent[k].Traces[j].Spans # <<>>
                   /\ sent[k].Traces[j].Spans[1][1] = i}) >= 3

\* payload p holds a span of the i-th trace but not its last span
HoldsPartOf(p, i) ==
    LET spans == SpansOf(p.Traces)
    IN  /\ \E k \in DOMAIN spans : spans[k][1] = i
        /\ \A k \in DOMAIN spans : spans[k] # ingested[i][Len(ingested[i])]

\* C4: no payload has more than MaxSpansPerPayload spans, and a payload that
\* holds a part of a trace whose rest comes later has exactly that many.
PayloadSizeRule ==
    \A k \in DOMAIN sent :
        /\ PayloadSpans(sent[k]) <= MaxSpansPerPayload
        /\ \A i \in DOMAIN ingested :
               HoldsPartOf(sent[k], i)
                   => PayloadSpans(sent[k]) = MaxSpansPerPayload

\* a trace was split over several payloads, the first shared with another trace
PayloadSizeRuleWitness ==
    /\ pc = "select"
    /\ Len(ingested) >= 2
    /\ \E k \in DOMAIN sent :
         /\ HoldsPartOf(sent[k], 2)
         /\ \E x \in Range(SpansOf(sent[k].Traces)) : x[1] = 1

\* C5: when the writer loop waits at its select the buffer is below the cap,
\* a handleTrace call that reached the cap having flushed before it returned.
CapTriggeredFlush ==
    pc = "select" => spansInBuffer < MaxSpansPerPayload

\* C6: a flush whose serialization fails hands nothing to the sender and
\* leaves the buffer empty with spansInBuffer = 0.
SerializationErrorDrops ==
    [][marshalErrs' > marshalErrs
         => /\ sent' = sent
            /\ traces' = <<>>
            /\ spansInBuffer' = 0]_vars

\* a flush called by the writer loop, on its tick or on exit
LoopFlush == FlushTick \/ ExitFlush

RECURSIVE SumBag(_, _)
SumBag(B, c) ==
    IF BagToSet(B) = {} THEN 0
    ELSE LET g == CHOOSE x \in BagToSet(B) : TRUE
         IN  g.twInfo[c] + SumBag(B (-) SetToBag({g}), c)

\* what the running updateInfo goroutines have swapped out of counter c and
\* not yet passed to the stats client
InFlight(c) == SumBag(updaters, c)

\* C8: for each counter, what completed updateInfo runs published, what the
\* running ones hold to publish and the counter's value add up to the total
\* of the increments made, so that with no run in progress published +
\* value = total; and a swap leaves its counter at zero.
NoIncrementLost ==
    /\ [](\A c \in Range(CounterNames) :
            /\ statsd[c] + InFlight(c) + stats[c] = added[c]
            /\ updaters = EmptyBag => statsd[c] + stats[c] = added[c])
    /\ [][\A g \in BagToSet(updaters) :
            UpdateInfoSwap(g) => stats'[CounterNames[g.at]] = 0]_vars

\* two updateInfo runs overlap, each holding increments it swapped out, and
\* a counter was incremented again since
NoIncrementLostWitness ==
    /\ BagCardinality(updaters) = 2
    /\ \E g \in BagToSet(updaters) : g.twInfo["Traces"] > 0
    /\ \E g \in BagToSet(updaters) :
         g.twInfo["Traces"] = 0 /\ g.twInfo["Payloads"] > 0
    /\ stats["Payloads"] > 0

\* event e is counted in counter c
CountedIn(e, c) ==
    \/ e = "Success" /\ c = "Payloads"
    \/ e = "Failure" /\ c = "Errors"
    \/ e = "Retry" /\ c = "Retries"

\* C9: an event read from the monitor channel adds exactly 1 to the counter
\* of its type (Payloads for Success, Errors for Failure, Retries for Retry)
\* and nothing to any other counter, a nil or unknown event adding nothing;
\* and after s Success, r Retry and f Failure events the values published,
\* those being published and those of the counters add up to s, r and f.
SenderEventAccounting ==
    /\ [][\A e \in SenderEvents :
            evCount'[e] = evCount[e] + 1
                => \A c \in Range(CounterNames) :
                     stats'[c] = stats[c] + (IF CountedIn(e, c) THEN 1 ELSE 0)]_vars
    /\ [](\A e \in {"Success", "Failure", "Retry"} :
            \A c \in Range(CounterNames) :
                CountedIn(e, c)
                    => /\ statsd[c] + InFlight(c) + stats[c] = evCount[e]
                       /\ updaters = EmptyBag => statsd[c] + stats[c] = evCount[e])

\* one Success, one Retry and one Failure event were published by one
\* updateInfo run, which left the counters at zero
SenderEventAccountingWitness ==
    /\ evCount["Success"] = 1 /\ evCount["Retry"] = 1 /\ evCount["Failure"] = 1
    /\ statsd["Payloads"] = 1 /\ statsd["Retries"] = 1 /\ statsd["Errors"] = 1
    /\ twInfoReg["Payloads"] = 1 /\ twInfoReg["Retries"] = 1
    /\ twInfoReg["Errors"] = 1
    /\ stats["Payloads"] = 0 /\ stats["Retries"] = 0 /\ stats["Errors"] = 0
    /\ updaters = EmptyBag

IngestQuiet == nRecv = MaxTraces

InStatsClient(g) == g.at = Len(CounterNames) + 1

\* C11: the updateInfoTicker case only spawns updateInfo and leaves the loop
\* at its select; no step of an updateInfo goroutine moves the loop or touches
\* the buffer; while an updateInfo goroutine stays in a stats-client call the
\* loop at its select can take a trace, a flush tick and the exit signal, and
\* after exit is closed and ingest is quiet it flushes and returns.
InfoOffloaded ==
    /\ [][nUpdateInfo' # nUpdateInfo
            => /\ pc = "select" /\ pc' = "select"
               /\ BagCardinality(updaters') = BagCardinality(updaters) + 1
               /\ UNCHANGED <<stats, statsd, twInfoReg>>]_vars
    /\ [][(\E g \in BagToSet(updaters) :
              UpdateInfoSwap(g) \/ UpdateInfoPublish(g))
            => UNCHANGED <<pc, callTrace, traces, spansInBuffer, sent>>]_vars
    /\ [](pc = "select" /\ (\E g \in BagToSet(updaters) : InStatsClient(g))
            => /\ ENABLED FlushTick
               /\ nRecv < MaxShortTraces => ENABLED ReceiveShortTrace
               /\ exit = "closed" => ENABLED ExitFlush)
    /\ (/\ \E g \in BagToSet(updaters) : InStatsClient(g)
        /\ pc = "select" /\ exit = "closed" /\ nRecv = MaxShortTraces)
          ~> (pc = "done")

\* with an updateInfo goroutine still in its stats-client calls the loop
\* received a trace, flushed it on a tick and returned on the exit signal
InfoOffloadedWitness ==
    /\ \E g \in BagToSet(updaters) : InStatsClient(g) /\ g.twInfo = ZeroStats
    /\ pc = "done"
    /\ ingested # <<>>
    /\ sent # <<>>
    /\ stats["Traces"] > 0

\* C12: a flush called while no trace is buffered hands nothing to the sender
\* and leaves the buffer, spansInBuffer and the six counters as they were.
EmptyFlushNoOp ==
    [][LoopFlush /\ traces = <<>>
         => UNCHANGED <<sent, traces, spansInBuffer, stats, added,
                        marshalErrs>>]_vars

\* the loop returned after an exit flush on an empty buffer: every payload
\* sent before was a full one, flushed by handleTrace at the cap
EmptyFlushNoOpWitness ==
    /\ pc = "done"
    /\ marshalErrs = 0
    /\ traces = <<>>
    /\ spansInBuffer = 0
    /\ Len(sent) = 1
    /\ PayloadSpans(sent[1]) = MaxSpansPerPayload
    /\ stats["Traces"] = Len(sent[1].Traces)
    /\ stats["Spans"] = MaxSpansPerPayload

\* the values of the stream below v, and those up to v
NumBelow(v) == Cardinality({i \in DOMAIN inserted : inserted[i] < v})
NumUpTo(v) == Cardinality({i \in DOMAIN inserted : inserted[i] <= v})

\* value v has a true rank within EPSILON * N of q * N, q = k/QDen
RankWithinEps(v, k) ==
    \E r \in (NumBelow(v) + 1)..NumUpTo(v) :
        /\ epsInv * (QDen * r - k * sN) <= QDen * sN
        /\ epsInv * (k * sN - QDen * r) <= QDen * sN

\* C13: after N >= 1/EPSILON insertions, the value Quantile(q) returns has
\* a true rank within EPSILON * N of q * N, for every q in [0,1] (checked on
\* the last query, made of the summary as it is now).
RankAccuracy ==
    (~qRes.err /\ qRes.n = sN /\ sN >= epsInv)
        => RankWithinEps(qRes.v, qRes.q)

\* the spans of t have pairwise distinct SpanIDs
DistinctSpanIDs(t) ==
    \A i, j \in DOMAIN t : i # j => t[i].SpanID # t[j].SpanID

\* C15: NormalizeTrace returns a nil error exactly when the trace is not
\* empty, every span has the TraceID of the first, the SpanIDs are pairwise
\* distinct and Normalize succeeds on every span.
NormalizeTraceAcceptance ==
    normPc = "done"
        => (normRes.err = "nil"
              <=> /\ normIn # <<>>
                  /\ \A i \in DOMAIN normIn : normIn[i].TraceID = normIn[1].TraceID
                  /\ DistinctSpanIDs(normIn)
                  /\ \A i \in DOMAIN normIn :
                        Normalize(normIn[i], normNow).err = "nil")

\* a trace of two spans was accepted, one of them with its Service rewritten
NormalizeTraceAcceptanceWitness ==
    /\ normPc = "done"
    /\ normRes.err = "nil"
    /\ Len(normIn) = 2
    /\ normRes.trace # normIn

\* C16: Keep(span) is false exactly when an expression of the blacklist
\* that compiles matches span.Resource; the entries that do not compile are
\* skipped, and a match of any one entry rejects the span.
KeepRule ==
    filterCall.op = "Keep"
        => (filterCall.out = FALSE
              <=> \E k \in DOMAIN confIgnore :
                    /\ Compile(confIgnore[k]).ok
                    /\ MatchString(Compile(confIgnore[k]).toks, filterCall.in))

\* of two entries the first does not compile and the second rejected a span
KeepRuleWitness ==
    /\ filterCall.op = "Keep"
    /\ filterCall.out = FALSE
    /\ Len(confIgnore) = 2
    /\ ~Compile(confIgnore[1]).ok
    /\ Len(blacklist) = 1

\* an entry of conf.Regex is a valid rule: two strings, the first compiles
ValidRule(entry) == Len(entry) = 2 /\ Compile(entry[1]).ok

\* url after every valid rule of ents, from the k-th entry on, replaced all
\* the matches of its expression, one rule after the other
RECURSIVE RewriteAll(_, _, _)
RewriteAll(ents, k, url) ==
    IF k > Len(ents) THEN url
    ELSE IF ValidRule(ents[k])
        THEN RewriteAll(ents, k + 1,
                 ReplaceAllString(Compile(ents[k][1]).toks, url, ents[k][2]))
    ELSE RewriteAll(ents, k + 1, url)

CeilDiv(len, max) == (len + max - 1) \div max

\* C18: while handleTrace works on a trace of L >= 1 spans, the number of
\* recursive handleTrace calls made for it is at most
\* ceil(L / MaxSpansPerPayload), whatever the buffer held when it was called.
RecursionBound ==
    (pc = "handle" /\ ingested # <<>>)
        => depth <= CeilDiv(Len(ingested[Len(ingested)]), MaxSpansPerPayload)

\* the fields of the payload buffer and the payloads handed to the sender
flushVars == <<traces, spansInBuffer, sent>>

\* C19: a step hands at most one payload to the sender, after those handed
\* before; the fragments of the payloads in the order handed over, then the
\* buffer and what is still to be handled, are the traces in the order
\* handleTrace received them; and the buffer and the sender are touched only
\* by steps of the writer goroutine, one flush at a time, never by Stop.
CrossTraceOrder ==
    /\ [][sent' # sent
            => /\ Len(sent') = Len(sent) + 1
               /\ SubSeq(sent', 1, Len(sent)) = sent]_vars
    /\ [](SpansOf(AllFragments) \o callTrace = Concat(ingested))
    /\ [][flushVars' # flushVars
            => /\ pc \in {"select", "handle"}
               /\ UNCHANGED <<stopPc, exit, senderState>>]_vars

\* three traces were received; a payload with fragments of two of them and a
\* later payload were handed over, and the last trace is in the buffer
CrossTraceOrderWitness ==
    /\ pc = "select"
    /\ Len(ingested) = 3
    /\ Len(sent) >= 2
    /\ \E f, g \in Range(sent[1].Traces) :
         /\ f.Spans # <<>> /\ g.Spans # <<>>
         /\ f.Spans[1][1] # g.Spans[1][1]
    /\ traces # <<>>
    /\ traces[Len(traces)].Spans[1][1] = 3

\* C20: a snapshot published by updateInfo holds the counters as they were at
\* one instant, so that it has the Traces increment of a flush exactly when
\* it has its Spans increment, and its Bytes increment only with them: the
\* increments of one flush are not split across two published snapshots.
SnapshotAtomic ==
    /\ twInfoReg["Traces"] = 0 <=> twInfoReg["Spans"] = 0
    /\ twInfoReg["Bytes"] > 0 => twInfoReg["Traces"] > 0

\* a span of a trace the InTraces channel still holds
QueuedSpans == Range(Concat(inTraces))

\* C21: the shutdown branch flushes and returns without a receive from
\* InTraces; after it nothing is received, handled or handed to the sender,
\* and no span of a trace left in, or later sent to, the channel is in a
\* payload or in the buffer.
NoDrainOnExit ==
    /\ [][ExitFlush
            => /\ pc' = "done"
               /\ UNCHANGED <<ingested, inTraces, nRecv, callTrace>>]_vars
    /\ [][pc = "done"
            => UNCHANGED <<pc, ingested, nRecv, callTrace, sent, traces>>]_vars
    /\ [](QueuedSpans \cap Range(SentSpans \o SpansOf(traces)) = {})

\* the loop returned after a final flush that sent a payload, while the
\* channel holds two traces that were never received
NoDrainOnExitWitness ==
    /\ pc = "done"
    /\ sent # <<>>
    /\ ingested # <<>>
    /\ Len(inTraces) = 2
    /\ Len(ingested) + Len(inTraces) = MaxTraces

\* C22: once Start has been called, Stop has returned, and the sender has
\* been stopped by BaseWriter.Stop, only after the writer loop made its final
\* flush and returned.
StopWaitsForFinalFlush ==
    (pc # "new" /\ (stopPc = "stopped" \/ senderState = "stopped"))
        => pc = "done"

\* C23: a trace with a span whose end time Start + Duration, as a sum of
\* integers, is more than MaxEndDateOffset after the current time is
\* rejected, whatever the values of Start and Duration.
FutureEndRejected ==
    (/\ normPc = "done"
     /\ \E i \in DOMAIN normIn :
          normIn[i].Start + normIn[i].Duration > normNow + EndOffsetScaled)
        => normRes.err # "nil"

\* C24: every APITrace in the buffer and in a payload handed to the sender
\* has at least one span, and spansInBuffer is the sum of the lengths of the
\* buffered fragments.
FragmentsNonEmpty ==
    /\ \A k \in DOMAIN traces : traces[k].Spans # <<>>
    /\ \A p \in DOMAIN sent :
         \A k \in DOMAIN sent[p].Traces : sent[p].Traces[k].Spans # <<>>
    /\ spansInBuffer = SumLen(SpansOfEach(traces))

\* C25: whenever the writer loop waits at its select, the total added to
\* the Spans counter is the number of spans in the payloads handed to the
\* sender, and the total added to the Traces counter is the number of trace
\* fragments in those payloads.
AccountingMatchesSent ==
    pc = "select"
        => /\ added["Spans"] = Len(SentSpans)
           /\ added["Traces"] = Len(SentTraces)

\* the payloads endpoint.Write was called on
WrittenPayloads == {written[i].p : i \in DOMAIN written}

ServicesVersioning ==
    /\ [](svcsFlushed <= svcsVer)
    /\ [][runPc = "FlushServices" /\ runPc' # runPc
            => /\ svcsWritten' # svcsWritten <=> svcsVer # svcsFlushed
               /\ svcsWritten' # svcsWritten
                    => /\ Len(svcsWritten') = Len(svcsWritten) + 1
                       /\ svcsWritten'[Len(svcsWritten')].ver = svcsVer
               /\ svcsFlushed' = svcsVer
               /\ svcsVer' = svcsVer]_vars
    /\ [][svcsWritten' # svcsWritten => runPc = "FlushServices"]_vars
    /\ [](\A i, j \in DOMAIN svcsWritten :
            i # j => svcsWritten[i].ver # svcsWritten[j].ver)

\* the write of version 1 failed and was not made again by the FlushServices
\* of the next payload; after another update version 2 was written
ServicesVersioningWitness ==
    /\ runPc = "select"
    /\ nPayloads = 3
    /\ svcsWritten = <<[ver |-> 1, ok |-> FALSE], [ver |-> 2, ok |-> TRUE]>>
    /\ svcsFlushed = 2
    /\ svcsVer = 2
====
